---- MODULE Spec2Model ----
(***************************************************************************)
(* Lifecycle state machine of the project-planning API:                    *)
(* Proyecto -> Etapa -> Pedido -> Oferta.                                 *)
(*                                                                         *)
(* The relational store is modelled by the committed rows of one Proyecto *)
(* with its Etapas, Pedidos and Ofertas.  Every request handler runs in   *)
(* its own AsyncSession (app/db/session.py), which is an identity map of  *)
(* the rows it has loaded plus the pending changes that commit() flushes. *)
(*                                                                         *)
(* Spec      one request at a time: every handler runs to completion.      *)
(* SpecConc  two requests in flight: every database round trip of         *)
(*           accept / create-oferta is a step and steps interleave.        *)
(* SpecObs   the observaciones of the proyecto, one request at a time,     *)
(*           with the calendar day as part of the state.                   *)
(* SpecRefresh  refresh_etapa_state applied to every etapa and pedidos.    *)
(***************************************************************************)
EXTENDS Integers, FiniteSets, Sequences, TLC

\* ------------------------------------------------------------------ bounds
MaxPedidos == 2        \* pedidos rows that exist at the same time
MaxOfertas == 2        \* ofertas rows that exist at the same time

\* --------------------------------------------------------------- universe
Owner      == 1                      \* proyecto.user_id
Users      == {1, 2}                 \* ordinary authenticated users
SystemUser == 9                      \* BONITA_SYSTEM_USER_ID
Etapas     == {1, 2}                 \* the etapas the proyecto was created with
PedidoIds  == 1 .. MaxPedidos
OfertaIds  == 1 .. MaxOfertas
Sessions   == {1, 2}

\* the resolved actor of a request: a user row, flagged when it came in
\* through the X-API-Key branch
Actors ==
  {[id |-> u, is_bonita_actor |-> FALSE] : u \in Users}
    \cup {[id |-> SystemUser, is_bonita_actor |-> TRUE]}

\* the users who submit ofertas
Oferentes == {a \in Actors : ~a.is_bonita_actor}

EstadoProyecto == {"pendiente", "en_ejecucion", "finalizado"}
EstadoEtapa    == {"pendiente", "financiada", "esperando_ejecucion",
                   "en_ejecucion", "completada"}
EstadoPedido   == {"PENDIENTE", "COMPROMETIDO", "COMPLETADO"}
EstadoOferta   == {"pendiente", "aceptada", "rechazada"}

VARIABLES
  proyecto,     \* the proyectos row: [estado, user_id]
  etapas,       \* etapas rows: [Etapas -> [estado]]
  pedidos,      \* pedidos rows: [ids in use -> [etapa_id, estado, fecha_comprometido, fecha_completado]]
  ofertas,      \* ofertas rows: [ids in use -> [pedido_id, user_id, estado]]
  response,     \* the response on its way to the client: [op, result], or NoResponse
  sess,         \* the requests in flight: [Sessions -> session record]
  observaciones,\* observaciones rows: [ids in use -> [council_user_id, estado, fecha_limite]]
  today,        \* date.today(), in days
  listed        \* the observaciones the last read returned: a set of [id, estado]

vars == <<proyecto, etapas, pedidos, ofertas, response, sess, observaciones, today, listed>>

\* ---------------------------------------------------------------- helpers
Put(f, k, v) == [x \in (DOMAIN f) \cup {k} |-> IF x = k THEN v ELSE f[x]]
Del(f, S)    == [x \in (DOMAIN f) \ S |-> f[x]]

Pedido(e)          == [etapa_id |-> e, estado |-> "PENDIENTE",
                       fecha_comprometido |-> FALSE, fecha_completado |-> FALSE]
Oferta(p, u)       == [pedido_id |-> p, user_id |-> u, estado |-> "pendiente"]

\* etapa.pedidos as a session sees it: pedido id -> estado
PedidosOf(pd, e)   == [p \in {q \in DOMAIN pd : pd[q].etapa_id = e} |-> pd[p].estado]
OfertasOf(of, p)   == {o \in DOMAIN of : of[o].pedido_id = p}

\* default=uuid4: a primary key no existing row has.  Rows are only ever
\* compared by id, and a deleted row leaves no reference behind (ON DELETE
\* CASCADE), so the least free id stands for a fresh uuid.
NewId(f, Ids) == CHOOSE i \in Ids \ DOMAIN f : \A j \in Ids \ DOMAIN f : i <= j

\* an AsyncSession with no request: nothing loaded, nothing pending
Idle == [pc |-> "idle", oferta |-> 0, pedido |-> 0, user |-> 0, others |-> {},
         etapa |-> 0, etapa_estado |-> "none", view |-> << >>,
         new_estado |-> "none", was_pending |-> {}]

NoResponse == [op |-> "none", result |-> "none"]

\* ------------------------------------------------- state_machine.py
etapa_pedidos_pendientes(view) == {p \in DOMAIN view : view[p] = "PENDIENTE"}

\* fault variant: a pedido that is COMPROMETIDO would count as financed
etapa_all_pedidos_financed_or_committed(view) ==
  (DOMAIN view # {}) /\ (\A p \in DOMAIN view : view[p] # "PENDIENTE")

etapa_all_pedidos_financed(view) ==
  (DOMAIN view # {}) /\ (\A p \in DOMAIN view : view[p] = "COMPLETADO")

\* fault variant: an etapa awaiting its manual start would still be recomputed
can_auto_calculate_state_until_started(estado) ==
  estado \in {"pendiente", "financiada", "esperando_ejecucion"}

can_auto_calculate_state(estado) == estado \in {"pendiente", "financiada"}

\* fault variant: an etapa already 'financiada' would move on by itself
refresh_etapa_state_advancing(estado, view) ==
  IF ~can_auto_calculate_state(estado) THEN estado
  ELSE IF etapa_all_pedidos_financed(view)
       THEN (IF estado = "financiada" THEN "esperando_ejecucion" ELSE "financiada")
  ELSE "pendiente"

refresh_etapa_state(estado, view) ==
  IF ~can_auto_calculate_state(estado) THEN estado
  ELSE IF etapa_all_pedidos_financed(view) THEN "financiada"
  ELSE "pendiente"


\* ------------------------------------------------------- fault variants
\* What each operator below would be with one plausible slip in the code.
\* The properties further down are expected to tell these from the code.

\* closing the session would write the pending changes instead of dropping them
session_close_flushes(committed, in_memory) == in_memory

\* the confirmation would put the pedido back to PENDIENTE
mark_as_completed_reopens(pd, p) == [pd EXCEPT ![p].estado = "PENDIENTE"]

\* the pedido would stay PENDIENTE after an oferta is accepted
mark_as_comprometido_skipped(pd, p) == pd

\* the query would forget Oferta.pedido_id == oferta.pedido_id
accept_others_any_pedido(of, o, p) ==
  {x \in DOMAIN of : x # o /\ of[x].estado = "pendiente"}

\* every etapa, the 'completada' ones included, would be moved to
\* esperando_ejecucion
start_project_etapas_all(et) ==
  [e \in DOMAIN et |-> [et[e] EXCEPT !.estado = "esperando_ejecucion"]]

\* only etapas still 'pendiente' would be moved to esperando_ejecucion
start_project_etapas_pendiente_only(et) ==
  [e \in DOMAIN et |->
     IF et[e].estado = "pendiente"
     THEN [et[e] EXCEPT !.estado = "esperando_ejecucion"]
     ELSE et[e]]

\* ---------------------------------------------------------- db/session.py
\* get_db closes the AsyncSession when the handler returns or raises; what
\* was changed on loaded objects but never committed is discarded.
session_close(committed, in_memory) == committed

\* ----------------------------------------------------- ownership checks
is_owner(a)          == proyecto.user_id = a.id
owner_or_bonita(a)   == a.is_bonita_actor \/ is_owner(a)

\* OfertaService._verify_project_ownership
verify_project_ownership(a) == IF owner_or_bonita(a) THEN "ok" ELSE "Forbidden"

\* ------------------------------------------------------ pedido_service.py
mark_as_comprometido(pd, p) == [pd EXCEPT ![p].estado = "COMPROMETIDO"]

mark_as_completed(pd, p) == [pd EXCEPT ![p].estado = "COMPLETADO"]

\* ------------------------------------------------------ oferta_service.py
\* OfertaService.create: the checks before the INSERT
create_result(of, pd, p, a) ==
  IF p \notin DOMAIN pd THEN "NotFound"
  ELSE IF pd[p].estado # "PENDIENTE" THEN "InvalidState"
  ELSE IF \E o \in OfertasOf(of, p) : of[o].user_id = a.id THEN "Conflict"
  ELSE "ok"

\* fault variant: the check of oferta.estado would be missing
accept_result_no_oferta_check(of, pd, o, a) ==
  IF o \notin DOMAIN of THEN "NotFound"
  ELSE IF verify_project_ownership(a) # "ok" THEN "Forbidden"
  ELSE IF of[o].pedido_id \notin DOMAIN pd THEN "NotFound"
  ELSE IF pd[of[o].pedido_id].estado # "PENDIENTE" THEN "InvalidState"
  ELSE "ok"

\* OfertaService.accept: the checks before the first assignment
accept_result(of, pd, o, a) ==
  IF o \notin DOMAIN of THEN "NotFound"
  ELSE IF verify_project_ownership(a) # "ok" THEN "Forbidden"
  ELSE IF of[o].estado # "pendiente" THEN "InvalidState"
  ELSE IF of[o].pedido_id \notin DOMAIN pd THEN "NotFound"
  ELSE IF pd[of[o].pedido_id].estado # "PENDIENTE" THEN "InvalidState"
  ELSE "ok"

\* OfertaService.accept: stmt_other_ofertas
accept_others(of, o, p) ==
  {x \in DOMAIN of : of[x].pedido_id = p /\ x # o /\ of[x].estado = "pendiente"}

\* OfertaService.accept: what the first commit flushes
accept_flush(of, o, others) ==
  [x \in DOMAIN of |->
     IF x = o THEN [of[x] EXCEPT !.estado = "aceptada"]
     ELSE IF x \in others THEN [of[x] EXCEPT !.estado = "rechazada"]
     ELSE of[x]]

\* OfertaService.reject
reject_result(of, o, a) ==
  IF o \notin DOMAIN of THEN "NotFound"
  ELSE IF verify_project_ownership(a) # "ok" THEN "Forbidden"
  ELSE IF of[o].estado # "pendiente" THEN "InvalidState"
  ELSE "ok"

\* fault variant: the Bonita actor would pass the author check
confirm_result_bonita_bypass(of, pd, o, a) ==
  IF o \notin DOMAIN of THEN "NotFound"
  ELSE IF of[o].user_id # a.id /\ ~a.is_bonita_actor THEN "Forbidden"
  ELSE IF of[o].estado # "aceptada" THEN "InvalidState"
  ELSE IF pd[of[o].pedido_id].estado = "COMPLETADO" THEN "AlreadyConfirmed"
  ELSE IF pd[of[o].pedido_id].estado # "COMPROMETIDO" THEN "InvalidState"
  ELSE "ok"

\* fault variant: a pedido already COMPLETADO would get the generic error
confirm_result_generic_error(of, pd, o, a) ==
  IF o \notin DOMAIN of THEN "NotFound"
  ELSE IF of[o].user_id # a.id THEN "Forbidden"
  ELSE IF of[o].estado # "aceptada" THEN "InvalidState"
  ELSE IF pd[of[o].pedido_id].estado # "COMPROMETIDO" THEN "InvalidState"
  ELSE "ok"

\* OfertaService.confirm_realizacion: a 400 whose detail says that the
\* commitment "has already been confirmed" is the result "AlreadyConfirmed";
\* the other 400s are "InvalidState"
confirm_result(of, pd, o, a) ==
  IF o \notin DOMAIN of THEN "NotFound"
  ELSE IF of[o].user_id # a.id THEN "Forbidden"
  ELSE IF of[o].estado # "aceptada" THEN "InvalidState"
  ELSE IF pd[of[o].pedido_id].estado = "COMPLETADO" THEN "AlreadyConfirmed"
  ELSE IF pd[of[o].pedido_id].estado # "COMPROMETIDO" THEN "InvalidState"
  ELSE "ok"

\* OfertaService.update and OfertaService.delete_oferta share their checks
author_pending_result(of, o, a) ==
  IF o \notin DOMAIN of THEN "NotFound"
  ELSE IF of[o].user_id # a.id THEN "Forbidden"
  ELSE IF of[o].estado # "pendiente" THEN "InvalidState"
  ELSE "ok"

\* ---------------------------------------------------- proyecto_service.py
\* start_project: "Re-evaluate etapa states before validating financing"
start_project_refresh(et, pd) ==
  [e \in DOMAIN et |-> [et[e] EXCEPT !.estado = refresh_etapa_state(@, PedidosOf(pd, e))]]

\* start_project: pedidos_sin_financiar
pedidos_sin_financiar(pd) ==
  UNION {etapa_pedidos_pendientes(PedidosOf(pd, e)) : e \in Etapas}

start_project_result(pr, pd, a) ==
  IF ~owner_or_bonita(a) THEN "Forbidden"
  ELSE IF pr.estado # "pendiente" THEN "InvalidState"
  ELSE IF pedidos_sin_financiar(pd) # {} THEN "InvalidState"
  ELSE "ok"

\* start_project: "Transition etapas to esperando_ejecucion"
start_project_etapas(et) ==
  [e \in DOMAIN et |->
     IF et[e].estado # "completada"
     THEN [et[e] EXCEPT !.estado = "esperando_ejecucion"]
     ELSE et[e]]

\* fault variant: only etapas that are running would block the completion
etapas_incompletas_en_ejecucion_only(et) ==
  {e \in DOMAIN et : et[e].estado = "en_ejecucion"}

\* fault variant: etapas that are running would be completed along the way
complete_project_etapas_autocomplete(et) ==
  [e \in DOMAIN et |->
     IF et[e].estado = "en_ejecucion"
     THEN [et[e] EXCEPT !.estado = "completada"]
     ELSE et[e]]

\* complete_project: "Validate all etapas are completed (no state
\* modification)": the etapas of the session after the loop over them
complete_project_etapas(et) == et

\* complete_project: etapas_incompletas
etapas_incompletas(et) == {e \in DOMAIN et : et[e].estado # "completada"}

complete_project_result(pr, et, a) ==
  IF ~owner_or_bonita(a) THEN "Forbidden"
  ELSE IF pr.estado # "en_ejecucion" THEN "InvalidState"
  ELSE IF etapas_incompletas(et) # {} THEN "InvalidState"
  ELSE "ok"

\* ------------------------------------------------------- etapa_service.py
\* fault variant: a 'pendiente' etapa would start with pedidos still PENDIENTE
start_etapa_result_no_pedidos_check(pr, et, pd, e, a) ==
  IF ~owner_or_bonita(a) THEN "Forbidden"
  ELSE IF pr.estado # "en_ejecucion" THEN "InvalidState"
  ELSE IF et[e].estado \in {"en_ejecucion", "completada"} THEN "InvalidState"
  ELSE "ok"

\* fault variant: any etapa not yet 'completada' could be completed
complete_etapa_result_not_completed(pr, et, e, a) ==
  IF ~owner_or_bonita(a) THEN "Forbidden"
  ELSE IF pr.estado # "en_ejecucion" THEN "InvalidState"
  ELSE IF et[e].estado = "completada" THEN "InvalidState"
  ELSE "ok"

\* EtapaService.start_etapa: the checks before the transition
start_etapa_result(pr, et, pd, e, a) ==
  IF ~owner_or_bonita(a) THEN "Forbidden"
  ELSE IF pr.estado # "en_ejecucion" THEN "InvalidState"
  ELSE IF et[e].estado = "en_ejecucion" THEN "InvalidState"
  ELSE IF et[e].estado = "completada" THEN "InvalidState"
  ELSE IF et[e].estado = "pendiente"
          /\ etapa_pedidos_pendientes(PedidosOf(pd, e)) # {} THEN "InvalidState"
  ELSE "ok"

\* EtapaService.complete_etapa: the checks before the transition
complete_etapa_result(pr, et, e, a) ==
  IF ~owner_or_bonita(a) THEN "Forbidden"
  ELSE IF pr.estado # "en_ejecucion" THEN "InvalidState"
  ELSE IF et[e].estado # "en_ejecucion" THEN "InvalidState"
  ELSE "ok"


\* ------------------------------------------------------------------- Init
\* ProyectoService.create: one proyecto of Owner in 'pendiente', created with
\* two etapas ('pendiente') that each carry one pedido ('PENDIENTE'); the
\* schemas require at least one etapa and at least one pedido per etapa.
Init ==
  /\ proyecto   = [estado |-> "pendiente", user_id |-> Owner]
  /\ etapas     = [e \in Etapas |-> [estado |-> "pendiente"]]
  /\ pedidos    = [p \in {1, 2} |-> Pedido(p)]
  /\ ofertas    = << >>
  /\ response   = [op |-> "create_project", result |-> "ok"]
  /\ sess       = [s \in Sessions |-> Idle]
  /\ observaciones = << >>
  /\ today      = 0
  /\ listed     = {}

\* one request at a time: a request is sent when the response to the previous
\* one has arrived
Ready == response = NoResponse

Respond(op, r) == response' = [op |-> op, result |-> r]

\* ------------------------------------------- handlers, one request at a time
\* PedidoService.create_for_etapa.  db.get(Proyecto)/db.get(Etapa) load
\* etapa.pedidos (lazy="joined") BEFORE the INSERT; the later
\* select(...joinedload(Etapa.pedidos)) finds the etapa in the identity map
\* with that collection already loaded and does not repopulate it, so
\* refresh_etapa_state runs over the pedidos the etapa had before.
PedidoCreate(e, a) ==
  LET r == IF ~is_owner(a) THEN "Forbidden" ELSE "ok"
      id == NewId(pedidos, PedidoIds)
  IN /\ Ready
     /\ r = "ok" => Cardinality(DOMAIN pedidos) < MaxPedidos
     /\ IF r = "ok"
        THEN /\ pedidos' = Put(pedidos, id, Pedido(e))
             /\ etapas' = [etapas EXCEPT ![e].estado =
                             refresh_etapa_state(@, PedidosOf(pedidos, e))]
             /\ Respond("create_pedido", r)
        ELSE /\ UNCHANGED <<pedidos, etapas>>
             /\ Respond("create_pedido", r)
     /\ UNCHANGED <<proyecto, ofertas, sess, observaciones, today, listed>>

\* PedidoService.delete: the pedido and (cascade) its ofertas go; the etapa
\* is not touched.
PedidoDelete(p, a) ==
  LET r == IF p \notin DOMAIN pedidos THEN "NotFound"
           ELSE IF ~is_owner(a) THEN "Forbidden" ELSE "ok"
  IN /\ Ready
     /\ IF r = "ok"
        THEN /\ pedidos' = Del(pedidos, {p})
             /\ ofertas' = Del(ofertas, OfertasOf(ofertas, p))
        ELSE UNCHANGED <<pedidos, ofertas>>
     /\ Respond("delete_pedido", r)
     /\ UNCHANGED <<proyecto, etapas, sess, observaciones, today, listed>>

\* OfertaService.create
OfertaCreate(p, a) ==
  LET r == create_result(ofertas, pedidos, p, a)
      id == NewId(ofertas, OfertaIds)
  IN /\ Ready
     /\ r = "ok" => Cardinality(DOMAIN ofertas) < MaxOfertas
     /\ IF r = "ok"
        THEN /\ ofertas' = Put(ofertas, id, Oferta(p, a.id))
             /\ Respond("create_oferta", r)
        ELSE /\ UNCHANGED ofertas
             /\ Respond("create_oferta", r)
     /\ UNCHANGED <<proyecto, etapas, pedidos, sess, observaciones, today, listed>>

\* OfertaService.accept followed by PedidoService.mark_as_comprometido
OfertaAccept(o, a) ==
  LET r == accept_result(ofertas, pedidos, o, a)
  IN /\ Ready
     /\ IF r = "ok"
        THEN LET p   == ofertas[o].pedido_id
                 e   == pedidos[p].etapa_id
                 pd2 == mark_as_comprometido(pedidos, p)
             IN /\ ofertas' = accept_flush(ofertas, o, accept_others(ofertas, o, p))
                /\ pedidos' = pd2
                /\ etapas' = [etapas EXCEPT ![e].estado =
                                refresh_etapa_state(@, PedidosOf(pd2, e))]
        ELSE UNCHANGED <<ofertas, pedidos, etapas>>
     /\ Respond("accept", r)
     /\ UNCHANGED <<proyecto, sess, observaciones, today, listed>>

\* OfertaService.reject
OfertaReject(o, a) ==
  LET r == reject_result(ofertas, o, a)
  IN /\ Ready
     /\ IF r = "ok"
        THEN ofertas' = [ofertas EXCEPT ![o].estado = "rechazada"]
        ELSE UNCHANGED ofertas
     /\ Respond("reject", r)
     /\ UNCHANGED <<proyecto, etapas, pedidos, sess, observaciones, today, listed>>

\* OfertaService.confirm_realizacion followed by PedidoService.mark_as_completed
OfertaConfirm(o, a) ==
  LET r == confirm_result(ofertas, pedidos, o, a)
  IN /\ Ready
     /\ IF r = "ok"
        THEN LET p   == ofertas[o].pedido_id
                 e   == pedidos[p].etapa_id
                 pd2 == mark_as_completed(pedidos, p)
             IN /\ pedidos' = pd2
                /\ etapas' = [etapas EXCEPT ![e].estado =
                                refresh_etapa_state(@, PedidosOf(pd2, e))]
        ELSE UNCHANGED <<pedidos, etapas>>
     /\ Respond("confirm", r)
     /\ UNCHANGED <<proyecto, ofertas, sess, observaciones, today, listed>>

\* OfertaService.update: descripcion / monto_ofrecido only
OfertaUpdate(o, a) ==
  /\ Ready
  /\ Respond("update_oferta", author_pending_result(ofertas, o, a))
  /\ UNCHANGED <<proyecto, etapas, pedidos, ofertas, sess, observaciones, today, listed>>

\* OfertaService.delete_oferta
OfertaDelete(o, a) ==
  LET r == author_pending_result(ofertas, o, a)
  IN /\ Ready
     /\ IF r = "ok" THEN ofertas' = Del(ofertas, {o}) ELSE UNCHANGED ofertas
     /\ Respond("delete_oferta", r)
     /\ UNCHANGED <<proyecto, etapas, pedidos, sess, observaciones, today, listed>>

\* ProyectoService.start_project
StartProject(a) ==
  LET r   == start_project_result(proyecto, pedidos, a)
      mem == start_project_refresh(etapas, pedidos)
  IN /\ Ready
     /\ IF r = "ok"
        THEN /\ proyecto' = [proyecto EXCEPT !.estado = "en_ejecucion"]
             /\ etapas' = start_project_etapas(mem)
        ELSE /\ proyecto' = proyecto
             /\ etapas' = IF owner_or_bonita(a) /\ proyecto.estado = "pendiente"
                          THEN session_close(etapas, mem)
                          ELSE etapas
     /\ Respond("start_project", r)
     /\ UNCHANGED <<pedidos, ofertas, sess, observaciones, today, listed>>

\* ProyectoService.complete_project
CompleteProject(a) ==
  LET mem == complete_project_etapas(etapas)
      r   == complete_project_result(proyecto, mem, a)
  IN /\ Ready
     /\ IF r = "ok"
        THEN /\ proyecto' = [proyecto EXCEPT !.estado = "finalizado"]
             /\ etapas' = mem
        ELSE /\ UNCHANGED proyecto
             /\ etapas' = session_close(etapas, mem)
     /\ Respond("complete_project", r)
     /\ UNCHANGED <<pedidos, ofertas, sess, observaciones, today, listed>>

\* ProyectoService.update (PATCH): ProyectoUpdate carries an optional estado
\* and every provided field is setattr'ed onto the row.
ProyectoUpdate(estado, a) ==
  LET r == IF ~is_owner(a) THEN "Forbidden" ELSE "ok"
  IN /\ Ready
     /\ IF r = "ok"
        THEN proyecto' = [proyecto EXCEPT !.estado = estado]
        ELSE UNCHANGED proyecto
     /\ Respond("update_project", r)
     /\ UNCHANGED <<etapas, pedidos, ofertas, sess, observaciones, today, listed>>

\* EtapaService.start_etapa
StartEtapa(e, a) ==
  LET r == start_etapa_result(proyecto, etapas, pedidos, e, a)
  IN /\ Ready
     /\ IF r = "ok"
        THEN etapas' = [etapas EXCEPT ![e].estado = "en_ejecucion"]
        ELSE UNCHANGED etapas
     /\ Respond("start_etapa", r)
     /\ UNCHANGED <<proyecto, pedidos, ofertas, sess, observaciones, today, listed>>

\* EtapaService.complete_etapa
CompleteEtapa(e, a) ==
  LET r == complete_etapa_result(proyecto, etapas, e, a)
  IN /\ Ready
     /\ IF r = "ok"
        THEN etapas' = [etapas EXCEPT ![e].estado = "completada"]
        ELSE UNCHANGED etapas
     /\ Respond("complete_etapa", r)
     /\ UNCHANGED <<proyecto, pedidos, ofertas, sess, observaciones, today, listed>>

\* the client receives the response; the handler's session is closed
Deliver ==
  /\ response # NoResponse
  /\ response' = NoResponse
  /\ UNCHANGED <<proyecto, etapas, pedidos, ofertas, sess, observaciones, today, listed>>

Next ==
  \/ \E a \in Actors, e \in Etapas : PedidoCreate(e, a)
  \/ \E a \in Actors, p \in PedidoIds : PedidoDelete(p, a)
  \/ \E a \in Oferentes, p \in PedidoIds : OfertaCreate(p, a)
  \/ \E a \in Actors, o \in OfertaIds : OfertaAccept(o, a)
  \/ \E a \in Actors, o \in OfertaIds : OfertaReject(o, a)
  \/ \E a \in Actors, o \in OfertaIds : OfertaConfirm(o, a)
  \/ \E a \in Actors, o \in OfertaIds : OfertaUpdate(o, a)
  \/ \E a \in Actors, o \in OfertaIds : OfertaDelete(o, a)
  \/ \E a \in Actors : StartProject(a)
  \/ \E a \in Actors : CompleteProject(a)
  \/ \E a \in Actors, estado \in EstadoProyecto : ProyectoUpdate(estado, a)
  \/ \E a \in Actors, e \in Etapas : StartEtapa(e, a)
  \/ \E a \in Actors, e \in Etapas : CompleteEtapa(e, a)
  \/ Deliver

Spec == Init /\ [][Next]_vars

TypeOK ==
  /\ proyecto.estado \in EstadoProyecto
  /\ \A e \in Etapas : etapas[e].estado \in EstadoEtapa
  /\ DOMAIN pedidos \subseteq PedidoIds
  /\ \A p \in DOMAIN pedidos : pedidos[p].estado \in EstadoPedido /\ pedidos[p].etapa_id \in Etapas
  /\ DOMAIN ofertas \subseteq OfertaIds
  /\ \A o \in DOMAIN ofertas : ofertas[o].estado \in EstadoOferta /\ ofertas[o].pedido_id \in DOMAIN pedidos


\* ---------------------------------------------- handlers, statement by statement
\* Requests in flight at the same time.  Each has its own AsyncSession
\* (autoflush=False, expire_on_commit=False) on a READ COMMITTED connection:
\* a SELECT sees what is committed when it runs, what the session has already
\* loaded is served from its identity map, and commit() flushes an UPDATE of
\* the changed columns of each changed row by primary key.
InFlight(pc) == {s \in Sessions : sess[s].pc = pc}

\* OfertaService.create, lines 42-68: db.get(Pedido) and the duplicate query
CreateCheck(s, p, a) ==
  /\ sess[s].pc = "idle"
  /\ create_result(ofertas, pedidos, p, a) = "ok"
  /\ Cardinality(DOMAIN ofertas) + Cardinality(InFlight("create_commit")) < MaxOfertas
  /\ sess' = [sess EXCEPT ![s] = [Idle EXCEPT !.pc = "create_commit",
                                              !.pedido = p, !.user = a.id]]
  /\ UNCHANGED <<proyecto, etapas, pedidos, ofertas, response, observaciones, today, listed>>

\* OfertaService.create, lines 70-83: INSERT and commit
CreateCommit(s) ==
  /\ sess[s].pc = "create_commit"
  /\ ofertas' = Put(ofertas, NewId(ofertas, OfertaIds),
                    Oferta(sess[s].pedido, sess[s].user))
  /\ sess' = [sess EXCEPT ![s] = Idle]
  /\ UNCHANGED <<proyecto, etapas, pedidos, response, observaciones, today, listed>>

\* OfertaService.accept, lines 154-189: the oferta is loaded, ownership is
\* verified (which loads pedido, etapa with etapa.pedidos, and proyecto unless
\* the actor is Bonita), the checks pass, oferta.estado is assigned.
AcceptLoad(s, o, a) ==
  /\ sess[s].pc = "idle"
  /\ accept_result(ofertas, pedidos, o, a) = "ok"
  /\ LET p == ofertas[o].pedido_id
         e == pedidos[p].etapa_id
     IN sess' = [sess EXCEPT ![s] =
          [Idle EXCEPT !.pc = "accept_select", !.oferta = o, !.pedido = p,
                       !.etapa = IF a.is_bonita_actor THEN 0 ELSE e,
                       !.etapa_estado = IF a.is_bonita_actor THEN "none"
                                        ELSE etapas[e].estado,
                       !.view = IF a.is_bonita_actor THEN << >>
                                ELSE PedidosOf(pedidos, e)]]
  /\ UNCHANGED <<proyecto, etapas, pedidos, ofertas, response, observaciones, today, listed>>

\* OfertaService.accept, lines 191-206: the other pending ofertas are queried
\* and assigned 'rechazada'
AcceptSelectOthers(s) ==
  /\ sess[s].pc = "accept_select"
  /\ sess' = [sess EXCEPT ![s].pc = "accept_commit",
                          ![s].others = accept_others(ofertas, sess[s].oferta, sess[s].pedido)]
  /\ UNCHANGED <<proyecto, etapas, pedidos, ofertas, response, observaciones, today, listed>>

\* OfertaService.accept, lines 208-210: the first commit
AcceptCommit(s) ==
  /\ sess[s].pc = "accept_commit"
  /\ ofertas' = accept_flush(ofertas, sess[s].oferta, sess[s].others)
  /\ sess' = [sess EXCEPT ![s].pc = "accept_mark",
                          ![s].was_pending =
                             accept_others(ofertas, sess[s].oferta, sess[s].pedido)]
  /\ UNCHANGED <<proyecto, etapas, pedidos, response, observaciones, today, listed>>

\* PedidoService.mark_as_comprometido, lines 256-267: db.get(Pedido) is an
\* identity-map hit, pedido.estado is assigned, the etapa is selected (loaded
\* now if the session does not hold it yet) and refresh_etapa_state runs on
\* the session's objects.
AcceptMark(s) ==
  /\ sess[s].pc = "accept_mark"
  /\ LET p      == sess[s].pedido
         e      == pedidos[p].etapa_id
         loaded == sess[s].etapa # 0
         estado == IF loaded THEN sess[s].etapa_estado ELSE etapas[e].estado
         view   == IF loaded THEN sess[s].view ELSE PedidosOf(pedidos, e)
         mem    == [q \in DOMAIN view |->
                      IF q = p THEN mark_as_comprometido(pedidos, p)[p].estado ELSE view[q]]
     IN sess' = [sess EXCEPT ![s].pc = "accept_mark_commit",
                             ![s].etapa = e,
                             ![s].etapa_estado = estado,
                             ![s].view = mem,
                             ![s].new_estado = refresh_etapa_state(estado, mem)]
  /\ UNCHANGED <<proyecto, etapas, pedidos, ofertas, response, observaciones, today, listed>>

\* PedidoService.mark_as_comprometido, lines 269-273: the second commit writes
\* pedido.estado, and etapa.estado when refresh_etapa_state changed it
AcceptMarkCommit(s) ==
  /\ sess[s].pc = "accept_mark_commit"
  /\ pedidos' = mark_as_comprometido(pedidos, sess[s].pedido)
  /\ etapas' = IF sess[s].new_estado # sess[s].etapa_estado
               THEN [etapas EXCEPT ![sess[s].etapa].estado = sess[s].new_estado]
               ELSE etapas
  /\ sess' = [sess EXCEPT ![s] = Idle]
  /\ UNCHANGED <<proyecto, ofertas, response, observaciones, today, listed>>

\* OfertaService.confirm_realizacion, lines 257-302: the oferta is selected
\* with its pedido and the checks pass
ConfirmLoad(s, o, a) ==
  /\ sess[s].pc = "idle"
  /\ confirm_result(ofertas, pedidos, o, a) = "ok"
  /\ sess' = [sess EXCEPT ![s] = [Idle EXCEPT !.pc = "confirm_mark", !.oferta = o,
                                              !.pedido = ofertas[o].pedido_id]]
  /\ UNCHANGED <<proyecto, etapas, pedidos, ofertas, response, observaciones, today, listed>>

\* PedidoService.mark_as_completed, lines 281-292: db.get(Pedido) is an
\* identity-map hit, pedido.estado is assigned, the etapa is selected with its
\* pedidos as committed now, and refresh_etapa_state runs on these objects.
ConfirmMark(s) ==
  /\ sess[s].pc = "confirm_mark"
  /\ LET p      == sess[s].pedido
         e      == pedidos[p].etapa_id
         estado == etapas[e].estado
         view   == PedidosOf(pedidos, e)
         mem    == [q \in DOMAIN view |->
                      IF q = p THEN mark_as_completed(pedidos, p)[p].estado ELSE view[q]]
     IN sess' = [sess EXCEPT ![s].pc = "confirm_commit",
                             ![s].etapa = e,
                             ![s].etapa_estado = estado,
                             ![s].view = mem,
                             ![s].new_estado = refresh_etapa_state(estado, mem)]
  /\ UNCHANGED <<proyecto, etapas, pedidos, ofertas, response, observaciones, today, listed>>

\* PedidoService.mark_as_completed, lines 294-298: the commit writes
\* pedido.estado, and etapa.estado when refresh_etapa_state changed it
ConfirmCommit(s) ==
  /\ sess[s].pc = "confirm_commit"
  /\ pedidos' = mark_as_completed(pedidos, sess[s].pedido)
  /\ etapas' = IF sess[s].new_estado # sess[s].etapa_estado
               THEN [etapas EXCEPT ![sess[s].etapa].estado = sess[s].new_estado]
               ELSE etapas
  /\ sess' = [sess EXCEPT ![s] = Idle]
  /\ UNCHANGED <<proyecto, ofertas, response, observaciones, today, listed>>

\* The proyecto of Init after pedidos were deleted and created while both
\* etapas stayed 'pendiente': two pedidos, each in either etapa.
InitConc ==
  /\ proyecto   = [estado |-> "pendiente", user_id |-> Owner]
  /\ etapas     = [e \in Etapas |-> [estado |-> "pendiente"]]
  /\ \E f \in [{1, 2} -> Etapas] : pedidos = [p \in {1, 2} |-> Pedido(f[p])]
  /\ ofertas    = << >>
  /\ response   = NoResponse
  /\ sess       = [s \in Sessions |-> Idle]
  /\ observaciones = << >>
  /\ today      = 0
  /\ listed     = {}

\* create, accept and confirm run statement by statement in the sessions;
\* reject and update, whose only write is their commit, run as whole handlers
\* in between.
NextConc ==
  \/ \E s \in Sessions, p \in PedidoIds, a \in Oferentes : CreateCheck(s, p, a)
  \/ \E s \in Sessions : CreateCommit(s)
  \/ \E s \in Sessions, o \in OfertaIds, a \in Actors : AcceptLoad(s, o, a)
  \/ \E s \in Sessions : AcceptSelectOthers(s)
  \/ \E s \in Sessions : AcceptCommit(s)
  \/ \E s \in Sessions : AcceptMark(s)
  \/ \E s \in Sessions : AcceptMarkCommit(s)
  \/ \E s \in Sessions, o \in OfertaIds, a \in Actors : ConfirmLoad(s, o, a)
  \/ \E s \in Sessions : ConfirmMark(s)
  \/ \E s \in Sessions : ConfirmCommit(s)
  \/ \E a \in Actors, o \in OfertaIds : OfertaReject(o, a)
  \/ \E a \in Actors, o \in OfertaIds : OfertaUpdate(o, a)
  \/ Deliver

SpecConc == InitConc /\ [][NextConc]_vars

\* ------------------------------------------------- observacion_service.py
\* The observaciones of the proyecto.  SpecObs runs one request at a time.
MaxObservaciones == 2   \* observaciones rows that exist at the same time
MaxDay           == 5   \* the last day the clock reaches
FirstDay         == 3   \* the day the model starts on
PlazoDias        == 5   \* timedelta(days=5) of ObservacionService.create

ObsIds        == 1 .. MaxObservaciones
ProyectoId    == 1                    \* the id of the proyecto
ProyectoIds   == {ProyectoId, 2}      \* ids a request may name; 2 has no row
CouncilUsers  == {3, 4}

\* users.role; the Bonita system user is an ordinary row of users
ObsActors ==
  {[id |-> u, is_bonita_actor |-> FALSE, role |-> "MEMBER"] : u \in Users}
    \cup {[id |-> u, is_bonita_actor |-> FALSE, role |-> "COUNCIL"] : u \in CouncilUsers}
    \cup {[id |-> SystemUser, is_bonita_actor |-> TRUE, role |-> "MEMBER"]}

EstadosObservacion == {"pendiente", "resuelta", "vencida"}
EstadoFilters      == {"none"} \cup EstadosObservacion

\* models/observacion.py: the members of the enum class, name |-> value
EstadoObservacionMembers ==
  [PENDIENTE |-> "pendiente", RESUELTA |-> "resuelta", VENCIDA |-> "vencida"]

\* fault variant: the members would carry the lowercase names of their values
EstadoObservacion_lowercase_names(name) ==
  IF name \in EstadosObservacion THEN name ELSE "AttributeError"

\* EstadoObservacion.<name>: attribute access on the enum class gives the
\* member of that name and raises AttributeError for any other name
EstadoObservacion(name) ==
  IF name \in DOMAIN EstadoObservacionMembers
  THEN EstadoObservacionMembers[name]
  ELSE "AttributeError"

\* ObservacionService._check_and_update_overdue: the estado the row has after
\* the call, or the exception that leaves it
check_and_update_overdue(ob, t) ==
  IF EstadoObservacion("pendiente") = "AttributeError" THEN "AttributeError"
  ELSE IF ob.estado = EstadoObservacion("pendiente") /\ t > ob.fecha_limite
       THEN EstadoObservacion("vencida")
       ELSE ob.estado

\* the loop of the read paths over the rows S they loaded
check_raises(obs, S, t) ==
  \E o \in S : check_and_update_overdue(obs[o], t) = "AttributeError"

\* the rows after the loop, when no call raised
check_all(obs, S, t) ==
  [o \in DOMAIN obs |->
     IF o \in S THEN [obs[o] EXCEPT !.estado = check_and_update_overdue(obs[o], t)]
     ELSE obs[o]]

\* what a read hands back: the rows S as they are in obs
Listing(obs, S) == {[id |-> o, estado |-> obs[o].estado] : o \in S}

\* the WHERE clause of an estado filter
estado_matches(ob, f) == f = "none" \/ ob.estado = f

\* ObservacionService.create: the checks and the construction of the row
obs_create_result(pr, pid, a) ==
  IF a.role # "COUNCIL" THEN "Forbidden"
  ELSE IF pid # ProyectoId THEN "NotFound"
  ELSE IF pr.estado # "en_ejecucion" THEN "InvalidState"
  ELSE IF EstadoObservacion("pendiente") = "AttributeError" THEN "Error"
  ELSE "ok"

\* ObservacionService.resolve: overdue check, then ownership, then estado
obs_resolve_result(obs, o, a, t) ==
  IF o \notin DOMAIN obs THEN "NotFound"
  ELSE IF check_and_update_overdue(obs[o], t) = "AttributeError" THEN "Error"
  ELSE IF ~owner_or_bonita(a) THEN "Forbidden"
  ELSE IF check_and_update_overdue(obs[o], t) = EstadoObservacion("resuelta")
       THEN "InvalidState"
  ELSE "ok"

\* ObservacionService.expire: ownership, then estado, no look at the deadline
obs_expire_result(obs, o, a) ==
  IF o \notin DOMAIN obs THEN "NotFound"
  ELSE IF ~owner_or_bonita(a) THEN "Forbidden"
  ELSE IF EstadoObservacion("resuelta") = "AttributeError" THEN "Error"
  ELSE IF obs[o].estado = EstadoObservacion("resuelta") THEN "InvalidState"
  ELSE IF obs[o].estado = EstadoObservacion("vencida") THEN "InvalidState"
  ELSE "ok"

\* ObservacionService.update: overdue check, then creator or owner
obs_update_result(obs, o, a, t) ==
  IF o \notin DOMAIN obs THEN "NotFound"
  ELSE IF check_and_update_overdue(obs[o], t) = "AttributeError" THEN "Error"
  ELSE IF ~(obs[o].council_user_id = a.id \/ is_owner(a)) THEN "Forbidden"
  ELSE "ok"

\* ObservacionService.get_all_observaciones: the rows the query selects.  A
\* MEMBER is restricted to the proyectos that user owns; for any other role
\* the statement carries no restriction.
get_all_rows(obs, a, f) ==
  {o \in DOMAIN obs :
     /\ a.role = "MEMBER" => is_owner(a)
     /\ estado_matches(obs[o], f)}

\* ObservacionService.list_by_proyecto: the rows the query selects
list_by_proyecto_rows(obs, f) == {o \in DOMAIN obs : estado_matches(obs[o], f)}

ObsCreate(pid, a) ==
  LET r  == obs_create_result(proyecto, pid, a)
      id == NewId(observaciones, ObsIds)
  IN /\ Ready
     /\ r = "ok" => DOMAIN observaciones # ObsIds
     /\ IF r = "ok"
        THEN observaciones' = Put(observaciones, id,
               [council_user_id |-> a.id, estado |-> EstadoObservacion("pendiente"),
                fecha_limite |-> today + PlazoDias])
        ELSE UNCHANGED observaciones
     /\ Respond("create_observacion", r)
     /\ listed' = {}
     /\ UNCHANGED <<proyecto, etapas, pedidos, ofertas, sess, today>>

\* a read: the overdue check over the rows S, a commit when a row changed
ObsRead(op, S) ==
  LET after == check_all(observaciones, S, today)
  IN /\ Ready
     /\ IF check_raises(observaciones, S, today)
        THEN /\ Respond(op, "Error")
             /\ listed' = {}
             /\ UNCHANGED observaciones
        ELSE /\ Respond(op, "ok")
             /\ listed' = Listing(after, S)
             /\ observaciones' = after
     /\ UNCHANGED <<proyecto, etapas, pedidos, ofertas, sess, today>>

\* ObservacionService.get_by_id
ObsGetById(o) ==
  IF o \in DOMAIN observaciones
  THEN ObsRead("get_observacion", {o})
  ELSE /\ Ready
       /\ Respond("get_observacion", "NotFound")
       /\ listed' = {}
       /\ UNCHANGED <<proyecto, etapas, pedidos, ofertas, sess, observaciones, today>>

\* ObservacionService.list_by_proyecto
ObsListByProyecto(pid, f) ==
  IF pid = ProyectoId
  THEN ObsRead("list_by_proyecto", list_by_proyecto_rows(observaciones, f))
  ELSE /\ Ready
       /\ Respond("list_by_proyecto", "NotFound")
       /\ listed' = {}
       /\ UNCHANGED <<proyecto, etapas, pedidos, ofertas, sess, observaciones, today>>

\* ObservacionService.get_all_observaciones
ObsGetAll(a, f) ==
  /\ f \in EstadoFilters
  /\ ObsRead("list_all", get_all_rows(observaciones, a, f))

\* ObservacionService.update: descripcion and the Bonita ids are not modelled,
\* the commit persists the estado the overdue check has set
ObsUpdate(o, a) ==
  LET r == obs_update_result(observaciones, o, a, today)
  IN /\ Ready
     /\ IF r = "ok"
        THEN observaciones' = check_all(observaciones, {o}, today)
        ELSE UNCHANGED observaciones
     /\ Respond("update_observacion", r)
     /\ listed' = {}
     /\ UNCHANGED <<proyecto, etapas, pedidos, ofertas, sess, today>>

ObsResolve(o, a) ==
  LET r == obs_resolve_result(observaciones, o, a, today)
  IN /\ Ready
     /\ IF r = "ok"
        THEN observaciones' =
               [observaciones EXCEPT ![o].estado = EstadoObservacion("resuelta")]
        ELSE UNCHANGED observaciones
     /\ Respond("resolve", r)
     /\ listed' = {}
     /\ UNCHANGED <<proyecto, etapas, pedidos, ofertas, sess, today>>

ObsExpire(o, a) ==
  LET r == obs_expire_result(observaciones, o, a)
  IN /\ Ready
     /\ IF r = "ok"
        THEN observaciones' =
               [observaciones EXCEPT ![o].estado = EstadoObservacion("vencida")]
        ELSE UNCHANGED observaciones
     /\ Respond("expire", r)
     /\ listed' = {}
     /\ UNCHANGED <<proyecto, etapas, pedidos, ofertas, sess, today>>

\* midnight: date.today() moves on by one day
Tick ==
  /\ today < MaxDay
  /\ today' = today + 1
  /\ UNCHANGED <<proyecto, etapas, pedidos, ofertas, response, sess, observaciones, listed>>

\* The rows an earlier release of the service left in the table (the
\* migration 0ec59ed902de rewrites the estado of existing rows): up to
\* MaxObservaciones rows with a deadline before, on or after FirstDay, a
\* 'vencida' row only with its deadline in the past.
ObsRows ==
  {r \in [council_user_id : CouncilUsers, estado : EstadosObservacion,
          fecha_limite : (FirstDay - 1) .. (FirstDay + 1)] :
     r.estado = "vencida" => r.fecha_limite < FirstDay}

InitObs ==
  /\ proyecto   = [estado |-> "pendiente", user_id |-> Owner]
  /\ etapas     = [e \in Etapas |-> [estado |-> "pendiente"]]
  /\ pedidos    = [p \in {1, 2} |-> Pedido(p)]
  /\ ofertas    = << >>
  /\ response   = NoResponse
  /\ sess       = [s \in Sessions |-> Idle]
  /\ \E n \in 0 .. MaxObservaciones : observaciones \in [1 .. n -> ObsRows]
  /\ today      = FirstDay
  /\ listed     = {}

NextObs ==
  \/ \E a \in ObsActors, pid \in ProyectoIds : ObsCreate(pid, a)
  \/ \E o \in ObsIds : ObsGetById(o)
  \/ \E pid \in ProyectoIds, f \in EstadoFilters : ObsListByProyecto(pid, f)
  \/ \E a \in ObsActors, f \in EstadoFilters : ObsGetAll(a, f)
  \/ \E a \in ObsActors, o \in ObsIds : ObsUpdate(o, a)
  \/ \E a \in ObsActors, o \in ObsIds : ObsResolve(o, a)
  \/ \E a \in ObsActors, o \in ObsIds : ObsExpire(o, a)
  \/ \E a \in Actors, estado \in EstadoProyecto : ProyectoUpdate(estado, a)
  \/ Tick
  \/ Deliver

SpecObs == InitObs /\ [][NextObs]_vars

\* ------------------------------------------- refresh_etapa_state on its own
\* Every estado of the two etapas over every assignment of estados to up to
\* MaxPedidos pedidos; the one operation is the recomputation of an etapa.
InitRefresh ==
  /\ proyecto   = [estado |-> "pendiente", user_id |-> Owner]
  /\ etapas     \in [Etapas -> [estado : EstadoEtapa]]
  /\ \E n \in 0 .. MaxPedidos :
       pedidos \in [1 .. n -> [etapa_id : Etapas, estado : EstadoPedido,
                               fecha_comprometido : {FALSE}, fecha_completado : {FALSE}]]
  /\ ofertas    = << >>
  /\ response   = NoResponse
  /\ sess       = [s \in Sessions |-> Idle]
  /\ observaciones = << >>
  /\ today      = 0
  /\ listed     = {}

\* refresh_etapa_state(etapa): sets etapa.estado and returns it
RefreshEtapa(e) ==
  LET estado == refresh_etapa_state(etapas[e].estado, PedidosOf(pedidos, e))
  IN /\ Ready
     /\ etapas' = [etapas EXCEPT ![e].estado = estado]
     /\ Respond("refresh", estado)
     /\ UNCHANGED <<proyecto, pedidos, ofertas, sess, observaciones, today, listed>>

NextRefresh ==
  \/ \E e \in Etapas : RefreshEtapa(e)
  \/ Deliver

SpecRefresh == InitRefresh /\ [][NextRefresh]_vars


\* ===================================================================
\* Properties
\* ===================================================================
Accepted(of, p) == {o \in OfertasOf(of, p) : of[o].estado = "aceptada"}

AutoEtapas == {e \in Etapas : can_auto_calculate_state(etapas[e].estado)}

\* C1: after any sequence of lifecycle operations (create, accept, reject,
\* confirm, update and delete of ofertas, create and delete of pedidos) every
\* pedido has at most one oferta in 'aceptada'.
C1_AtMostOneAccepted ==
  \A p \in PedidoIds : Cardinality(Accepted(ofertas, p)) <= 1

\* a second accept on a pedido that already has an accepted oferta was refused
C1_Witness ==
  /\ response = [op |-> "accept", result |-> "InvalidState"]
  /\ \E p \in DOMAIN pedidos :
       /\ Cardinality(OfertasOf(ofertas, p)) = 2
       /\ Cardinality(Accepted(ofertas, p)) = 1

\* C2: when two accepts of two different pending ofertas of the same pending
\* pedido run at the same time, their statements and commits interleaved, the
\* pedido does not end up with two accepted ofertas once both have finished.
C2_ConcurrentAcceptOneWinner ==
  (\A s \in Sessions : sess[s].pc = "idle") =>
     \A p \in PedidoIds : Cardinality(Accepted(ofertas, p)) <= 1

\* C3: a successful accept of oferta o on pedido R leaves o 'aceptada', every
\* other oferta of R that was 'pendiente' 'rechazada', R 'COMPROMETIDO' and the
\* etapa of R recomputed; ofertas of other pedidos and ofertas that were
\* already 'rechazada' are not changed.
C3_AcceptPostcondition ==
  [][response' = [op |-> "accept", result |-> "ok"] =>
     \A o \in OfertaIds, a \in Actors :
       OfertaAccept(o, a) =>
         LET p == ofertas[o].pedido_id
             e == pedidos[p].etapa_id
         IN /\ DOMAIN ofertas' = DOMAIN ofertas
            /\ ofertas'[o] = [ofertas[o] EXCEPT !.estado = "aceptada"]
            /\ \A x \in DOMAIN ofertas \ {o} :
                 ofertas'[x] =
                   IF ofertas[x].pedido_id = p /\ ofertas[x].estado = "pendiente"
                   THEN [ofertas[x] EXCEPT !.estado = "rechazada"]
                   ELSE ofertas[x]
            /\ pedidos' = [pedidos EXCEPT ![p].estado = "COMPROMETIDO"]
            /\ etapas' = [etapas EXCEPT ![e].estado =
                            IF can_auto_calculate_state(@) THEN "pendiente" ELSE @]
            /\ proyecto' = proyecto]_vars

\* an accept succeeded on a pedido that had a second, pending oferta
C3_Witness ==
  /\ response = [op |-> "accept", result |-> "ok"]
  /\ \E o, x \in DOMAIN ofertas :
       /\ ofertas[o].pedido_id = ofertas[x].pedido_id
       /\ ofertas[o].estado = "aceptada"
       /\ ofertas[x].estado = "rechazada"
       /\ pedidos[ofertas[o].pedido_id].estado = "COMPROMETIDO"

\* C4: accept is atomic: no committed state can be observed in which the
\* oferta is 'aceptada' while its pedido is still 'PENDIENTE'.
C4_AcceptAtomic ==
  \A o \in DOMAIN ofertas :
    ofertas[o].estado = "aceptada" => pedidos[ofertas[o].pedido_id].estado # "PENDIENTE"

\* C5: accepting oferta A and rejecting the other pending ofertas of its pedido
\* become visible together: no reader sees A 'aceptada' while an oferta of the
\* pedido that was 'pendiente' when A was accepted is still 'pendiente', and
\* no reader sees two accepted ofertas on the pedido.
C5_AcceptAndRejectTogether ==
  /\ \A s \in Sessions :
       (/\ sess[s].pc \in {"accept_mark", "accept_mark_commit"}
        /\ ofertas[sess[s].oferta].estado = "aceptada")
         => \A x \in sess[s].was_pending : ofertas[x].estado # "pendiente"
  /\ \A p \in PedidoIds : Cardinality(Accepted(ofertas, p)) <= 1

\* C6: every etapa in 'pendiente' or 'financiada' is 'financiada' exactly when
\* it has at least one pedido and all its pedidos are 'COMPLETADO', and
\* 'pendiente' otherwise, after any create or delete of a pedido, accept,
\* confirm, and start or complete of etapa or proyecto.
C6_AutoEtapaMatchesPedidos ==
  \A e \in AutoEtapas :
    (etapas[e].estado = "financiada") <=> etapa_all_pedidos_financed(PedidosOf(pedidos, e))

\* C7: no etapa without pedidos is 'financiada', also after pedidos are deleted.
C7_NoEmptyFinanciada ==
  \A e \in Etapas :
    DOMAIN PedidosOf(pedidos, e) = {} => etapas[e].estado # "financiada"

\* C8: start_project by the owner on a proyecto in 'pendiente' succeeds exactly
\* when, after the etapas are recomputed, every etapa is 'financiada' (has at
\* least one pedido, all of them 'COMPLETADO'); otherwise it fails InvalidState.
C8_StartIffAllFinanced ==
  [][(response'.op = "start_project" /\ proyecto.estado = "pendiente") =>
     \A a \in Actors :
       (is_owner(a) /\ StartProject(a))
       => LET mem == start_project_refresh(etapas, pedidos)
              all_financed ==
                \A e \in Etapas :
                  /\ mem[e].estado = "financiada"
                  /\ etapa_all_pedidos_financed(PedidosOf(pedidos, e))
          IN response'.result = IF all_financed THEN "ok" ELSE "InvalidState"]_vars

\* C9: a start_project that fails (proyecto not 'pendiente', actor not the
\* owner, pedidos not financed) leaves proyecto.estado as it was and persists
\* no change of any etapa or pedido, although the etapas were recomputed on
\* the session's objects before the check.
C9_FailedStartPersistsNothing ==
  [][(response'.op = "start_project" /\ response'.result # "ok")
       => UNCHANGED <<proyecto, etapas, pedidos, ofertas>>]_vars

\* a start was refused for pending pedidos while the recomputation had changed
\* an etapa on the session's objects
C9_Witness ==
  /\ response = [op |-> "start_project", result |-> "InvalidState"]
  /\ proyecto.estado = "pendiente"
  /\ pedidos_sin_financiar(pedidos) # {}
  /\ start_project_refresh(etapas, pedidos) # etapas

\* C10: a successful start_project sets the proyecto to 'en_ejecucion' and
\* moves every etapa that is not 'completada' to 'esperando_ejecucion',
\* 'financiada' ones included; etapas in 'completada' keep their estado.
C10_StartProjectEffect ==
  [][response' = [op |-> "start_project", result |-> "ok"] =>
         /\ proyecto' = [proyecto EXCEPT !.estado = "en_ejecucion"]
         /\ \A e \in Etapas :
              etapas'[e].estado = IF etapas[e].estado = "completada"
                                  THEN "completada" ELSE "esperando_ejecucion"
         /\ UNCHANGED <<pedidos, ofertas>>]_vars

\* a start succeeded on a proyecto with one etapa already 'completada' and one
\* whose pedidos are all 'COMPLETADO'
C10_Witness ==
  /\ response = [op |-> "start_project", result |-> "ok"]
  /\ proyecto.estado = "en_ejecucion"
  /\ \E e1, e2 \in Etapas :
       /\ etapas[e1].estado = "completada"
       /\ etapas[e2].estado = "esperando_ejecucion"
       /\ etapa_all_pedidos_financed(PedidosOf(pedidos, e2))


ManualEstados == {"esperando_ejecucion", "en_ejecucion", "completada"}

\* every etapa.pedidos a session can hold: pedido id -> estado
Views == UNION {[S -> EstadoPedido] : S \in SUBSET PedidoIds}

\* C11: complete_project by the owner succeeds exactly when the proyecto is
\* 'en_ejecucion' and every etapa is 'completada'; on success the proyecto
\* becomes 'finalizado', otherwise the call fails InvalidState and
\* proyecto.estado is unchanged.
C11_CompleteProjectIff ==
  [][response'.op = "complete_project" =>
     \A a \in Actors :
       (is_owner(a) /\ CompleteProject(a)) =>
         IF /\ proyecto.estado = "en_ejecucion"
            /\ \A e \in Etapas : etapas[e].estado = "completada"
         THEN /\ response'.result = "ok"
              /\ proyecto' = [proyecto EXCEPT !.estado = "finalizado"]
         ELSE /\ response'.result = "InvalidState"
              /\ proyecto' = proyecto]_vars

\* a proyecto was finalized with all its etapas 'completada'
C11_Witness ==
  /\ response = [op |-> "complete_project", result |-> "ok"]
  /\ proyecto.estado = "finalizado"
  /\ \A e \in Etapas : etapas[e].estado = "completada"

\* C12: complete_project never changes the estado of an etapa, whether it
\* succeeds or fails: 'completada' etapas stay 'completada' and an etapa still
\* 'en_ejecucion' stays 'en_ejecucion'.
C12_CompleteProjectKeepsEtapas ==
  [][response'.op = "complete_project" => etapas' = etapas]_vars

\* a completion was refused with one etapa 'completada' and one 'en_ejecucion'
C12_Witness ==
  /\ response = [op |-> "complete_project", result |-> "InvalidState"]
  /\ proyecto.estado = "en_ejecucion"
  /\ \E e1, e2 \in Etapas :
       etapas[e1].estado = "completada" /\ etapas[e2].estado = "en_ejecucion"

\* C13: recomputation never changes an etapa that is not auto-derivable: for
\* every assignment of pedido estados refresh_etapa_state on an etapa in
\* 'esperando_ejecucion', 'en_ejecucion' or 'completada' returns the current
\* estado, so no create of a pedido, accept or confirm overwrites a manually
\* set etapa estado.
C13_ManualEtapaNotRecomputed ==
  [][response'.op \in {"create_pedido", "accept", "confirm"} =>
     \A e \in Etapas :
       etapas[e].estado \in ManualEstados =>
         /\ etapas'[e] = etapas[e]
         /\ \A v \in Views :
              refresh_etapa_state(etapas[e].estado, v) = etapas[e].estado]_vars

\* a confirm completed the last pedido of an etapa that is in a manual estado
C13_Witness ==
  /\ response = [op |-> "confirm", result |-> "ok"]
  /\ \E e \in Etapas :
       /\ etapas[e].estado \in ManualEstados
       /\ etapa_all_pedidos_financed(PedidosOf(pedidos, e))

\* C14: confirm_realizacion(o, actor) succeeds exactly when the actor is the
\* author of o, o is 'aceptada' and its pedido is 'COMPROMETIDO'; on success
\* the pedido becomes 'COMPLETADO' and its etapa is recomputed in the same
\* step ('financiada' when this was the last pedido not 'COMPLETADO' and the
\* etapa is auto-derivable); the Bonita flag does not bypass the author check.
C14_ConfirmContract ==
  [][response'.op = "confirm" =>
     \A o \in DOMAIN ofertas, a \in Actors :
       OfertaConfirm(o, a) =>
         LET p    == ofertas[o].pedido_id
             e    == pedidos[p].etapa_id
             may  == /\ a.id = ofertas[o].user_id
                     /\ ofertas[o].estado = "aceptada"
                     /\ pedidos[p].estado = "COMPROMETIDO"
             last == \A q \in DOMAIN pedidos :
                       (pedidos[q].etapa_id = e /\ q # p) => pedidos[q].estado = "COMPLETADO"
         IN /\ (response'.result = "ok") <=> may
            /\ a.id # ofertas[o].user_id => response'.result = "Forbidden"
            /\ may =>
                 /\ pedidos' = [pedidos EXCEPT ![p].estado = "COMPLETADO"]
                 /\ etapas' = [etapas EXCEPT ![e].estado =
                      IF @ \in {"pendiente", "financiada"}
                      THEN (IF last THEN "financiada" ELSE "pendiente")
                      ELSE @]
                 /\ UNCHANGED <<ofertas, proyecto>>
            /\ ~may => UNCHANGED <<proyecto, etapas, pedidos, ofertas>>]_vars

\* a confirm succeeded and made its etapa 'financiada'
C14_Witness ==
  /\ response = [op |-> "confirm", result |-> "ok"]
  /\ \E e \in Etapas :
       /\ etapas[e].estado = "financiada"
       /\ etapa_all_pedidos_financed(PedidosOf(pedidos, e))

\* C16: confirm_realizacion by the author on an accepted oferta whose pedido is
\* already 'COMPLETADO' fails with the AlreadyConfirmed error, which differs
\* from the generic InvalidState error given when the pedido is still
\* 'PENDIENTE'; in both cases nothing changes.
C16_AlreadyConfirmedDistinct ==
  [][response'.op = "confirm" =>
     /\ response'.result \in {"AlreadyConfirmed", "InvalidState"} =>
          UNCHANGED <<proyecto, etapas, pedidos, ofertas>>
     /\ \A o \in DOMAIN ofertas, a \in Actors :
          (/\ OfertaConfirm(o, a)
           /\ a.id = ofertas[o].user_id
           /\ ofertas[o].estado = "aceptada") =>
            LET p == ofertas[o].pedido_id
            IN /\ pedidos[p].estado = "COMPLETADO" =>
                    response'.result = "AlreadyConfirmed"
               /\ confirm_result(ofertas, [pedidos EXCEPT ![p].estado = "PENDIENTE"], o, a)
                    = "InvalidState"
               /\ confirm_result(ofertas, [pedidos EXCEPT ![p].estado = "COMPLETADO"], o, a)
                    # "InvalidState"]_vars

\* a second confirm of the same oferta was answered AlreadyConfirmed
C16_Witness ==
  /\ response = [op |-> "confirm", result |-> "AlreadyConfirmed"]
  /\ \E o \in DOMAIN ofertas :
       ofertas[o].estado = "aceptada" /\ pedidos[ofertas[o].pedido_id].estado = "COMPLETADO"

\* C17: accept fails InvalidState and changes no oferta, pedido or etapa
\* whenever the oferta is not 'pendiente' (already accepted or rejected) or
\* its pedido is not 'PENDIENTE' (COMPROMETIDO or COMPLETADO).
C17_AcceptInvalidState ==
  [][response'.op = "accept" =>
     \A o \in DOMAIN ofertas, a \in Actors :
       (owner_or_bonita(a) /\ OfertaAccept(o, a)) =>
         LET p == ofertas[o].pedido_id
         IN /\ (ofertas[o].estado # "pendiente" \/ pedidos[p].estado # "PENDIENTE") =>
                 /\ response'.result = "InvalidState"
                 /\ UNCHANGED <<proyecto, etapas, pedidos, ofertas>>
            /\ \A est \in EstadoPedido \ {"PENDIENTE"} :
                 accept_result(ofertas, [pedidos EXCEPT ![p].estado = est], o, a)
                   = "InvalidState"]_vars

\* an accept of an oferta that had been rejected was refused
C17_Witness ==
  /\ response = [op |-> "accept", result |-> "InvalidState"]
  /\ \E o \in DOMAIN ofertas :
       ofertas[o].estado = "rechazada" /\ pedidos[ofertas[o].pedido_id].estado = "PENDIENTE"

\* C19: create of an oferta fails Conflict when the author already has a
\* 'pendiente' oferta on the pedido, and an earlier oferta of the same author
\* on that pedido that is not 'pendiente' (e.g. 'rechazada') does not block a
\* new one.
C19_ConflictOnlyForPending ==
  [][response'.op = "create_oferta" =>
     \A p \in DOMAIN pedidos, a \in Oferentes :
       (OfertaCreate(p, a) /\ pedidos[p].estado = "PENDIENTE") =>
         ((response'.result = "Conflict") <=>
            \E o \in OfertasOf(ofertas, p) :
              ofertas[o].user_id = a.id /\ ofertas[o].estado = "pendiente")]_vars


\* C15: a pedido's change to 'COMPLETADO' and the recomputation of its etapa
\* are committed together: no reader sees an auto-derivable etapa still
\* 'pendiente' while it has at least one pedido and all its pedidos are
\* 'COMPLETADO', also when two confirms on different pedidos of the same etapa
\* run at the same time.
C15_ConfirmAndRecomputeTogether ==
  \A e \in Etapas :
    ~(/\ etapas[e].estado = "pendiente"
      /\ etapa_all_pedidos_financed(PedidosOf(pedidos, e)))

\* C18: reject applies the same ownership and state checks as accept (oferta
\* 'pendiente' and its pedido 'PENDIENTE') and on success sets only the target
\* oferta to 'rechazada': the pedido, the etapa and every other oferta are
\* unchanged.
C18_RejectLikeAccept ==
  [][response'.op = "reject" =>
     \A o \in DOMAIN ofertas, a \in Actors :
       OfertaReject(o, a) =>
         /\ response'.result = accept_result(ofertas, pedidos, o, a)
         /\ response'.result = "ok" =>
              /\ ofertas' = [ofertas EXCEPT ![o].estado = "rechazada"]
              /\ UNCHANGED <<proyecto, etapas, pedidos>>
         /\ response'.result # "ok" =>
              UNCHANGED <<proyecto, etapas, pedidos, ofertas>>]_vars

\* C20: update and delete of an oferta succeed only when the actor is its
\* author, the oferta is 'pendiente' and its pedido is 'PENDIENTE'; any other
\* call fails (Forbidden or InvalidState) and leaves the oferta unchanged and
\* present.
C20_AuthorPendingOnly ==
  [][response'.op \in {"update_oferta", "delete_oferta"} =>
     \A o \in DOMAIN ofertas, a \in Actors :
       ((response'.op = "update_oferta" /\ OfertaUpdate(o, a))
          \/ (response'.op = "delete_oferta" /\ OfertaDelete(o, a))) =>
         LET may == /\ a.id = ofertas[o].user_id
                    /\ ofertas[o].estado = "pendiente"
                    /\ pedidos[ofertas[o].pedido_id].estado = "PENDIENTE"
         IN /\ response'.result = "ok" => may
            /\ ~may => /\ response'.result \in {"Forbidden", "InvalidState"}
                       /\ o \in DOMAIN ofertas'
                       /\ ofertas'[o] = ofertas[o]]_vars


C22_CompleteEtapaIff ==
  [][response'.op = "complete_etapa" =>
     \A e \in Etapas, a \in Actors :
       CompleteEtapa(e, a) =>
         LET may == /\ a.is_bonita_actor \/ a.id = proyecto.user_id
                    /\ proyecto.estado = "en_ejecucion"
                    /\ etapas[e].estado = "en_ejecucion"
         IN /\ (response'.result = "ok") <=> may
            /\ etapas' = IF may THEN [etapas EXCEPT ![e].estado = "completada"]
                         ELSE etapas
            /\ UNCHANGED <<proyecto, pedidos, ofertas>>]_vars

\* an etapa was completed while the other one had not been started
C22_Witness ==
  /\ response = [op |-> "complete_etapa", result |-> "ok"]
  /\ \E e1, e2 \in Etapas :
       /\ etapas[e1].estado = "completada"
       /\ etapas[e2].estado = "esperando_ejecucion"


\* The ownership check of the six lifecycle operations that carry it (accept,
\* reject, start_etapa, complete_etapa, start_project, complete_project on
\* rows that exist): an actor who is neither the owner of the proyecto nor the
\* Bonita system user gets Forbidden and no row changes; the owner and the
\* Bonita system user never get Forbidden.
OwnershipGate_Lifecycle ==
  [][response'.op \in {"accept", "reject", "start_etapa", "complete_etapa",
                       "start_project", "complete_project"} =>
     \A a \in Actors :
       (\/ \E o \in DOMAIN ofertas : OfertaAccept(o, a) \/ OfertaReject(o, a)
        \/ \E e \in Etapas : StartEtapa(e, a) \/ CompleteEtapa(e, a)
        \/ StartProject(a)
        \/ CompleteProject(a)) =>
         IF a.is_bonita_actor \/ a.id = proyecto.user_id
         THEN response'.result # "Forbidden"
         ELSE /\ response'.result = "Forbidden"
              /\ UNCHANGED <<proyecto, etapas, pedidos, ofertas>>]_vars

\* C23: for accept, reject, start_etapa, complete_etapa, start_project,
\* complete_project and the resolve of an observacion the ownership check
\* passes iff the actor owns the proyecto or is the Bonita system user; any
\* other actor gets Forbidden and no row changes.  Stated here for resolve,
\* the one of the seven that SpecObs runs.
C23_ResolveOwnershipGate ==
  [][response'.op = "resolve" =>
     \A o \in DOMAIN observaciones, a \in ObsActors :
       ObsResolve(o, a) =>
         IF a.is_bonita_actor \/ a.id = proyecto.user_id
         THEN response'.result # "Forbidden"
         ELSE /\ response'.result = "Forbidden"
              /\ UNCHANGED <<proyecto, observaciones>>]_vars


\* C24: create of an observacion succeeds iff the actor has role COUNCIL, the
\* proyecto exists and is 'en_ejecucion'; the created observacion is
\* 'pendiente' with fecha_limite equal to the creation date plus 5 days; on a
\* 'pendiente' or 'finalizado' proyecto it fails InvalidState and creates
\* nothing.
C24_CreateObservacionIff ==
  [][response'.op = "create_observacion" =>
     \A pid \in ProyectoIds, a \in ObsActors :
       ObsCreate(pid, a) =>
         LET may == /\ a.role = "COUNCIL"
                    /\ pid = ProyectoId
                    /\ proyecto.estado = "en_ejecucion"
         IN /\ (response'.result = "ok") <=> may
            /\ may => \E id \in ObsIds \ DOMAIN observaciones :
                        observaciones' = Put(observaciones, id,
                          [council_user_id |-> a.id, estado |-> "pendiente",
                           fecha_limite |-> today + 5])
            /\ ~may => observaciones' = observaciones
            /\ (a.role = "COUNCIL" /\ pid = ProyectoId
                  /\ proyecto.estado \in {"pendiente", "finalizado"})
                 => response'.result = "InvalidState"]_vars


ReadOps == {"get_observacion", "list_by_proyecto", "list_all"}

\* a 'pendiente' row whose deadline has passed
Overdue(ob) == ob.estado = "pendiente" /\ today > ob.fecha_limite

\* C25: the overdue check turns a 'pendiente' observacion into 'vencida' iff
\* today is strictly after fecha_limite: on the day of the deadline and on any
\* earlier day it stays 'pendiente', and a 'resuelta' or 'vencida' observacion
\* is never changed by the check.
C25_OverdueCheckStrict ==
  \A o \in DOMAIN observaciones :
    check_and_update_overdue(observaciones[o], today) =
      IF observaciones[o].estado = "pendiente" /\ today > observaciones[o].fecha_limite
      THEN "vencida"
      ELSE observaciones[o].estado

\* C26: every read path (get by id, list by proyecto, list all) that selects
\* a 'pendiente' observacion whose deadline has passed returns it as 'vencida'
\* and persists the change, so that later reads show 'vencida' too.
C26_ReadExpiresAndPersists ==
  [][response'.op \in ReadOps =>
     \A o \in DOMAIN observaciones :
       (/\ Overdue(observaciones[o])
        /\ \/ ObsGetById(o)
           \/ \E f \in {"none", "pendiente"} : ObsListByProyecto(ProyectoId, f)
           \/ \E a \in ObsActors, f \in {"none", "pendiente"} :
                is_owner(a) /\ ObsGetAll(a, f)) =>
         /\ [id |-> o, estado |-> "vencida"] \in listed'
         /\ observaciones'[o].estado = "vencida"]_vars

\* C27: resolve by the owner of the proyecto succeeds from 'pendiente' and
\* from 'vencida' (also for a 'pendiente' observacion whose deadline has
\* passed) and sets the estado to 'resuelta'; on a 'resuelta' observacion it
\* fails InvalidState and changes nothing.
C27_ResolveFromPendingOrExpired ==
  [][response'.op = "resolve" =>
     \A o \in DOMAIN observaciones, a \in ObsActors :
       (is_owner(a) /\ ObsResolve(o, a)) =>
         IF observaciones[o].estado \in {"pendiente", "vencida"}
         THEN /\ response'.result = "ok"
              /\ observaciones' = [observaciones EXCEPT ![o].estado = "resuelta"]
         ELSE /\ response'.result = "InvalidState"
              /\ observaciones' = observaciones]_vars

\* an observacion is 'vencida' only after its deadline, and an observacion
\* becomes 'vencida' only in a read
ExpiredOnlyAfterDeadline ==
  \A o \in DOMAIN observaciones :
    observaciones[o].estado = "vencida" => today > observaciones[o].fecha_limite

ExpiredOnlyByRead ==
  [][\A o \in DOMAIN observaciones :
       (o \in DOMAIN observaciones' /\ observaciones[o].estado # "vencida"
          /\ observaciones'[o].estado = "vencida") => response'.op \in ReadOps]_vars

\* C29: list all is scoped by role: a COUNCIL user gets the observaciones that
\* user created, any other user the observaciones of the proyectos that user
\* owns, and no observacion outside that set.
C29_ListAllScopedByRole ==
  [][response'.op = "list_all" =>
     \A a \in ObsActors :
       ObsGetAll(a, "none") =>
         {x.id : x \in listed'} =
           {o \in DOMAIN observaciones :
              IF a.role = "COUNCIL" THEN observaciones[o].council_user_id = a.id
              ELSE proyecto.user_id = a.id}]_vars


\* C30: for every auto-derivable etapa ('pendiente' or 'financiada') and every
\* assignment of estados to its pedidos, the empty one included,
\* refresh_etapa_state sets and returns 'financiada' iff the etapa has at
\* least one pedido and all its pedidos are COMPLETADO, and sets and returns
\* 'pendiente' otherwise; an etapa with a pedido that is COMPROMETIDO but not
\* COMPLETADO is 'pendiente'.
C30_RefreshAutoDerivable ==
  [][response'.op = "refresh" =>
     \A e \in Etapas :
       (etapas[e].estado \in {"pendiente", "financiada"} /\ RefreshEtapa(e)) =>
         LET mine     == {p \in DOMAIN pedidos : pedidos[p].etapa_id = e}
             financed == mine # {} /\ \A p \in mine : pedidos[p].estado = "COMPLETADO"
             expected == IF financed THEN "financiada" ELSE "pendiente"
         IN /\ etapas'[e].estado = expected
            /\ response'.result = expected]_vars

\* a recomputation returned 'pendiente' while every etapa has a pedido and no
\* pedido is PENDIENTE: the pedido of the recomputed etapa is COMPROMETIDO
C30_Witness ==
  /\ response = [op |-> "refresh", result |-> "pendiente"]
  /\ \A e \in Etapas :
       /\ etapas[e].estado = "pendiente"
       /\ \E p \in DOMAIN pedidos :
            pedidos[p].etapa_id = e /\ pedidos[p].estado = "COMPROMETIDO"
  /\ \A p \in DOMAIN pedidos : pedidos[p].estado # "PENDIENTE"


\* C31: refresh_etapa_state is idempotent on etapa.estado: for every estado of
\* an etapa and every assignment of estados to its pedidos, a second call with
\* no pedido changed in between leaves the estado the first call has set.
C31_RefreshIdempotent ==
  \A e \in Etapas :
    LET view == PedidosOf(pedidos, e)
        once == refresh_etapa_state(etapas[e].estado, view)
    IN refresh_etapa_state(once, view) = once

\* a recomputation returned 'financiada' while every etapa is 'financiada'
\* with all its pedidos COMPLETADO
C31_Witness ==
  /\ response = [op |-> "refresh", result |-> "financiada"]
  /\ \A e \in Etapas :
       /\ etapas[e].estado = "financiada"
       /\ etapa_all_pedidos_financed(PedidosOf(pedidos, e))


\* C32: the timestamps of a pedido follow its estado: a successful accept sets
\* fecha_comprometido and a successful confirm sets fecha_completado, so every
\* COMPROMETIDO pedido has fecha_comprometido and every COMPLETADO pedido has
\* fecha_completado.
C32_PedidoTimestamps ==
  \A p \in DOMAIN pedidos :
    /\ pedidos[p].estado = "COMPROMETIDO" => pedidos[p].fecha_comprometido
    /\ pedidos[p].estado = "COMPLETADO" => pedidos[p].fecha_completado


\* C33: proyecto.estado only moves 'pendiente' -> 'en_ejecucion' ->
\* 'finalizado', and only through start_project and complete_project: no
\* other operation, the partial update of the proyecto included, changes it,
\* moves it backwards or skips 'en_ejecucion'.
C33_ProyectoEstadoOrdered ==
  [][proyecto'.estado # proyecto.estado =>
       \/ /\ response'.op = "start_project"
          /\ proyecto.estado = "pendiente"
          /\ proyecto'.estado = "en_ejecucion"
       \/ /\ response'.op = "complete_project"
          /\ proyecto.estado = "en_ejecucion"
          /\ proyecto'.estado = "finalizado"]_vars


\* C34: after every completed operation (no request is in flight) the estado
\* of a pedido agrees with its ofertas: it is PENDIENTE iff none of its
\* ofertas is 'aceptada', and it is COMPROMETIDO or COMPLETADO iff exactly one
\* of its ofertas is 'aceptada'.
C34_PedidoAgreesWithOfertas ==
  (\A s \in Sessions : sess[s].pc = "idle") =>
    \A p \in DOMAIN pedidos :
      LET aceptadas == {o \in OfertasOf(ofertas, p) : ofertas[o].estado = "aceptada"}
      IN /\ pedidos[p].estado = "PENDIENTE" <=> aceptadas = {}
         /\ pedidos[p].estado \in {"COMPROMETIDO", "COMPLETADO"} <=> Cardinality(aceptadas) = 1


\* C35: the estado of a pedido is monotone: it only advances PENDIENTE ->
\* COMPROMETIDO (by accept) -> COMPLETADO (by confirm) and no operation moves
\* it back; so an etapa that is 'financiada' returns to 'pendiente' only
\* through a new pedido: whenever it returns, the etapa holds a pedido that is
\* not COMPLETADO, which (the estado being monotone) was created after the
\* etapa became 'financiada'.
C35_PedidoEstadoMonotone ==
  [][/\ \A p \in DOMAIN pedidos \cap DOMAIN pedidos' :
          pedidos'[p].estado # pedidos[p].estado =>
            \/ /\ response'.op = "accept"
               /\ pedidos[p].estado = "PENDIENTE"
               /\ pedidos'[p].estado = "COMPROMETIDO"
            \/ /\ response'.op = "confirm"
               /\ pedidos[p].estado = "COMPROMETIDO"
               /\ pedidos'[p].estado = "COMPLETADO"
     /\ \A e \in Etapas :
          etapas[e].estado = "financiada" /\ etapas'[e].estado = "pendiente" =>
            \E p \in DOMAIN pedidos' :
              pedidos'[p].etapa_id = e /\ pedidos'[p].estado # "COMPLETADO"]_vars

\* an accept succeeded on an etapa that holds a COMPLETADO pedido beside the
\* newly COMPROMETIDO one, and the etapa is 'pendiente'
C35_Witness ==
  /\ response = [op |-> "accept", result |-> "ok"]
  /\ \E p, q \in DOMAIN pedidos :
       /\ pedidos[p].etapa_id = pedidos[q].etapa_id
       /\ pedidos[p].estado = "COMPLETADO"
       /\ pedidos[q].estado = "COMPROMETIDO"
       /\ etapas[pedidos[p].etapa_id].estado = "pendiente"


\* C36: in every reachable state no oferta is 'pendiente' on a pedido that is
\* COMPROMETIDO or COMPLETADO, also when a create of an oferta interleaves
\* with an accept on the same pedido.
C36_NoPendingOfertaOnTakenPedido ==
  \A o \in DOMAIN ofertas :
    ofertas[o].pedido_id \in DOMAIN pedidos /\ ofertas[o].estado = "pendiente" =>
      pedidos[ofertas[o].pedido_id].estado \notin {"COMPROMETIDO", "COMPLETADO"}


\* C37: under the lifecycle operations (create and delete of a pedido, the
\* operations on ofertas, start_project, start_etapa, complete_etapa,
\* complete_project) a proyecto that is 'en_ejecucion' or 'finalizado' has
\* every etapa in 'esperando_ejecucion', 'en_ejecucion' or 'completada', never
\* 'pendiente' or 'financiada'.  It holds for the created proyecto, which is
\* 'pendiente', and every step of an operation other than the update of
\* the proyecto keeps it.
C37_EtapasStartedWithProyecto ==
  [][response'.op # "update_project" =>
       (proyecto'.estado \in {"en_ejecucion", "finalizado"} =>
          \/ \A e \in Etapas :
               etapas'[e].estado \in {"esperando_ejecucion", "en_ejecucion", "completada"}
          \/ /\ proyecto.estado \in {"en_ejecucion", "finalizado"}
             /\ \E e \in Etapas : etapas[e].estado \in {"pendiente", "financiada"})]_vars

\* a start succeeded while a pedido was only COMPROMETIDO (its etapa had been
\* recomputed to 'pendiente'), and every etapa was moved on
C37_Witness ==
  /\ response = [op |-> "start_project", result |-> "ok"]
  /\ proyecto.estado = "en_ejecucion"
  /\ \E p \in DOMAIN pedidos : pedidos[p].estado = "COMPROMETIDO"
  /\ \A e \in Etapas : etapas[e].estado \in {"esperando_ejecucion", "completada"}


\* C38: the manual transitions of an etapa are ordered: it becomes
\* 'en_ejecucion' only in a start_etapa while its proyecto is 'en_ejecucion',
\* it becomes 'completada' only in a complete_etapa from 'en_ejecucion', and
\* once 'completada' no operation changes its estado again.
C38_EtapaManualOrdered ==
  [][\A e \in Etapas :
       /\ (etapas[e].estado # "en_ejecucion" /\ etapas'[e].estado = "en_ejecucion") =>
            /\ response'.op = "start_etapa"
            /\ proyecto.estado = "en_ejecucion"
       /\ (etapas[e].estado # "completada" /\ etapas'[e].estado = "completada") =>
            /\ response'.op = "complete_etapa"
            /\ etapas[e].estado = "en_ejecucion"
       /\ etapas[e].estado = "completada" => etapas'[e].estado = "completada"]_vars

\* a start_project succeeded with one etapa 'completada', which kept its
\* estado, and another moved to 'esperando_ejecucion'
C38_Witness ==
  /\ response = [op |-> "start_project", result |-> "ok"]
  /\ \E e, f \in Etapas :
       etapas[e].estado = "completada" /\ etapas[f].estado = "esperando_ejecucion"


\* ----------------------------------------------------- metrics_service.py
\* MetricsService.get_dashboard_metrics: whether a proyecto counts in
\* ready_to_start
ready_to_start(pr, pd) ==
  /\ pr.estado = "pendiente"
  /\ Etapas # {}
  /\ \A e \in Etapas : etapa_all_pedidos_financed(PedidosOf(pd, e))

\* MetricsService.get_project_tracking: puede_iniciar
puede_iniciar(pr, pd) ==
  /\ pr.estado = "pendiente"
  /\ Etapas # {}
  /\ \A e \in Etapas : etapa_all_pedidos_financed(PedidosOf(pd, e))

\* C39: the readiness predicate of the metrics agrees with the guard of
\* start_project: a proyecto in 'pendiente' counts as ready to start in the
\* dashboard, and is reported puede_iniciar by the tracking, iff start_project
\* by its owner would succeed in the same state.
C39_ReadinessAgreesWithStart ==
  proyecto.estado = "pendiente" =>
    LET owner  == [id |-> Owner, is_bonita_actor |-> FALSE]
        starts == start_project_result(proyecto, pedidos, owner) = "ok"
    IN /\ ready_to_start(proyecto, pedidos) <=> starts
       /\ puede_iniciar(proyecto, pedidos) <=> starts


\* C40: a list by proyecto with the estado filter f that answers returns
\* exactly the observaciones of the proyecto whose estado after the overdue
\* check equals f: every returned row has estado f, and no observacion that
\* is 'vencida' after the check is missing from a list filtered by 'vencida'.
C40_FilterAfterOverdueCheck ==
  [][(response'.op = "list_by_proyecto" /\ response'.result = "ok") =>
     \A f \in EstadosObservacion :
       ObsListByProyecto(ProyectoId, f) =>
         listed' = {[id |-> o, estado |-> f] :
                      o \in {x \in DOMAIN observaciones :
                               f = IF Overdue(observaciones[x]) THEN "vencida"
                                   ELSE observaciones[x].estado}}]_vars

====
